---- MODULE Spec2Model ----
(***************************************************************************)
(* A model of src/git.ts (and of its older variant src/git.js):            *)
(*   - fetchCommitsDetails: the in-place reordering of a pull request's    *)
(*     commit listing (the "linearization"), one loop iteration per step;  *)
(*   - fetchRefSha / createRef / updateRef / deleteRef: one remote call    *)
(*     each, against a remote that may reject the call;                    *)
(*   - createTemporaryRef / withTemporaryRef: two concurrent invocations   *)
(*     on the same base name, interleaved at their awaits.                 *)
(***************************************************************************)
EXTENDS Integers, Sequences, FiniteSets, TLC

\* ------------------------------------------------------------------------
\* Bounds of the model
\* ------------------------------------------------------------------------
MaxCommits == 3      \* longest commit listing
NumShas == 3         \* distinct commit SHAs 1..NumShas that a listing may hold
NumUuids == 2        \* distinct values uuid/v4 may generate
NumRefShas == 2      \* distinct SHAs a ref may point at
MaxPages == 3        \* most pages the commit listing of git.js may span
MaxPageSize == 2     \* most commits on one page

VARIABLES
  \* fetchCommitsDetails
  pc,        \* position in fetchCommitsDetails
  commits,   \* the array returned by octokit.paginate, reordered in place
  listing,   \* history: the array exactly as octokit.paginate returned it
  headSha,   \* pr.data.head.sha
  i, j,      \* the loop indices (0-based, as in the source)
  result,    \* the returned CommitDetails[]
  error,     \* the exception fetchCommitsDetails rejected with, or "none"
  \* the remote repository
  remote,    \* the refs that exist: fully qualified name -> SHA
  \* one invocation at a time of fetchRefSha, createRef, updateRef, deleteRef
  opPc,      \* "idle", "awaiting" (the remote call is pending), "done"
  op,        \* the invocation: its kind and arguments
  opCalls,   \* the remote calls this invocation has issued
  opAnswer,  \* how the remote settled the last call
  opOutcome, \* how the invocation's promise settled
  \* two concurrent invocations of withTemporaryRef
  tpc,       \* per invocation: "idle", "create", "action", "delete", "done"
  suffix,        \* per invocation: the value uuid/v4 generated
  temporaryRef,  \* per invocation: the generated name
  actionArg,     \* per invocation: the name action was called with
  actionOutcome, \* per invocation: how action settled
  createAnswer,  \* per invocation: how the remote settled its createRef
  deleteAnswer,  \* per invocation: how the remote settled its deleteRef
  createCalls,   \* per invocation: remote createRef calls issued
  deleteCalls,   \* per invocation: remote deleteRef calls issued
  deleteTargets, \* per invocation: the remote refs its deletes named
  outcome,       \* per invocation: how withTemporaryRef's promise settled
  events,        \* per invocation, history: the calls made, in order
  \* fetchCommits of git.js
  fpc,           \* "idle", "loop" (at the while condition), "done"
  response,      \* the latest response
  fetched,       \* the local array commits
  requests,      \* history: the page numbers requested, in order
  responses,     \* history: the responses received, in order
  fetchResult    \* the returned array of SHAs

linVars == <<pc, commits, listing, headSha, i, j, result, error>>
opVars == <<opPc, op, opCalls, opAnswer, opOutcome>>
tmpVars == <<tpc, suffix, temporaryRef, actionArg, actionOutcome, createAnswer,
             deleteAnswer, createCalls, deleteCalls, deleteTargets, outcome,
             events>>
fetchVars == <<fpc, response, fetched, requests, responses, fetchResult>>
vars == <<linVars, remote, opVars, tmpVars, fetchVars>>

\* ------------------------------------------------------------------------
\* Commit records
\* ------------------------------------------------------------------------
Shas == 1 .. NumShas
\* A parent SHA that is the sha of no commit of any listing (outside the
\* fetched window).
OutsideSha == 0

\* The items octokit.paginate can return: a sha and a parents list, of which
\* only parents[0] is ever read.  The parents list is empty (a root commit)
\* or holds one SHA: outside the window, or an older commit's.
ParentsOf(s) == {<<>>} \cup { <<p>> : p \in {OutsideSha} \cup 1 .. (s - 1) }

CommitItems ==
  UNION { { [sha |-> s, parents |-> ps] : ps \in ParentsOf(s) } : s \in Shas }

\* A pull request holds at least one commit.
Listings == UNION { [1 .. n -> CommitItems] : n \in 1 .. MaxCommits }

\* Array.prototype.splice(at, 1) followed by splice(to, 0, removed), both
\* 0-based; an insertion index past the end appends, as in JavaScript.
RemoveAt(s, at) ==
  [k \in 1 .. (Len(s) - 1) |-> IF k <= at THEN s[k] ELSE s[k + 1]]

\* Mutant of InsertAt: splice(to, 1, x), which replaces the element at to.
InsertAtReplacing(s, to, x) ==
  IF to >= Len(s) THEN Append(s, x) ELSE [s EXCEPT ![to + 1] = x]

InsertAt(s, to, x) ==
  LET at == IF to > Len(s) THEN Len(s) ELSE to
  IN  [k \in 1 .. (Len(s) + 1) |->
         IF k <= at THEN s[k] ELSE IF k = at + 1 THEN x ELSE s[k - 1]]

\* Mutant of Move: the commit is spliced out and never spliced back in.
MoveWithoutInsert(s, from, to) == RemoveAt(s, from)

\* commits.splice(to, 0, commits.splice(from, 1)[0])
Move(s, from, to) == InsertAt(RemoveAt(s, from), to, s[from + 1])

\* Mutant of Reverse: the array is left newest first.
ReverseOmitted(s) == s

\* Array.prototype.reverse
Reverse(s) == [k \in 1 .. Len(s) |-> s[Len(s) + 1 - k]]

\* getCommitsDetails keeps author, committer, message, sha and tree and
\* drops the parents; of these the model carries the sha.
getCommitsDetails(c) == [sha |-> c.sha]

\* commits.map(getCommitsDetails)
MapDetails(s) == [k \in 1 .. Len(s) |-> getCommitsDetails(s[k])]

\* Mutant of HeadBody: the head commit is never moved to index zero.
HeadBodyWithoutMove(s, h, k) == s

\* Mutant of HeadBody: once a head commit is at index zero no other is moved.
HeadBodyFirstMatchOnly(s, h, k) ==
  IF s[k + 1].sha = h /\ s[1].sha # h THEN Move(s, k, 0) ELSE s

\* Mutant of HeadBody: the head commit is assigned to index zero, not spliced.
HeadBodyOverwrite(s, h, k) ==
  IF s[k + 1].sha = h THEN [s EXCEPT ![1] = s[k + 1]] ELSE s

\* The body of the first loop at index k: the kth commit moves to index zero
\* when its sha is the head's.
HeadBody(s, h, k) == IF s[k + 1].sha = h THEN Move(s, k, 0) ELSE s

\* commits[jj].parents[0] is undefined, so reading its sha throws.
ParentThrows(s, jj) == Len(s[jj + 1].parents) = 0

\* Mutant of ParentBody: the parent is inserted at index jj, before its child.
ParentBodyInsertBefore(s, jj, ii) ==
  IF s[ii + 1].sha = s[jj + 1].parents[1] THEN Move(s, ii, jj) ELSE s

\* The body of the inner loop at indices jj, ii (when it does not throw): the
\* iith commit moves to index jj + 1 when its sha is commits[jj]'s parent's.
ParentBody(s, jj, ii) ==
  IF s[ii + 1].sha = s[jj + 1].parents[1] THEN Move(s, ii, jj + 1) ELSE s

\* The whole of fetchCommitsDetails on a listing l and head SHA h, as one
\* function: both loops, the reversal and the map; error is the exception
\* thrown, or "none".
RECURSIVE HeadLoop(_, _, _)
HeadLoop(s, h, k) ==
  IF k >= Len(s) THEN s ELSE HeadLoop(HeadBody(s, h, k), h, k + 1)

RECURSIVE ParentLoop(_, _, _)
ParentLoop(s, jj, ii) ==
  IF jj >= Len(s) THEN [error |-> "none", value |-> s]
  ELSE IF ii >= Len(s) THEN ParentLoop(s, jj + 1, 0)
  ELSE IF ParentThrows(s, jj) THEN [error |-> "TypeError", value |-> <<>>]
  ELSE ParentLoop(ParentBody(s, jj, ii), jj, ii + 1)

Linearize(l, h) ==
  LET r == ParentLoop(HeadLoop(l, h, 0), 0, 0)
  IN  IF r.error = "none"
        THEN [error |-> "none", value |-> MapDetails(Reverse(r.value))]
        ELSE r

\* ------------------------------------------------------------------------
\* Ref names, settled promises and the remote repository
\* ------------------------------------------------------------------------
\* A ref name is a sequence of string pieces; a template literal appends.
BaseRefs == { <<"foo">>, <<"bar">> }
RefShas == 1 .. NumRefShas

\* The values uuid/v4 may generate.
UuidNames == <<"u1", "u2", "u3", "u4">>
Uuids == { UuidNames[k] : k \in 1 .. NumUuids }

\* Mutant of generateUniqueRef: the uuid is left out of the name.
generateUniqueRefWithoutUuid(ref, uuid) == ref

\* `${ref}-${generateUuid()}`, the generated uuid being the parameter
generateUniqueRef(ref, uuid) == ref \o <<"-", uuid>>

\* `heads/${ref}`
getHeadRef(ref) == <<"heads/">> \o ref

\* `refs/${getHeadRef(ref)}`
getFullyQualifiedRef(ref) == <<"refs/">> \o getHeadRef(ref)

\* How a promise settles; value 0 is undefined (void).
Pending == [kind |-> "pending", error |-> "none", value |-> 0]
Resolved(v) == [kind |-> "resolved", error |-> "none", value |-> v]
Rejected(e) == [kind |-> "rejected", error |-> e, value |-> 0]

\* The remote's refs: a function from fully qualified names to SHAs.
NoRefs == [k \in {} |-> 0]
WithRef(rem, key, sha) ==
  [k \in (DOMAIN rem) \cup {key} |-> IF k = key THEN sha ELSE rem[k]]
WithoutRef(rem, key) == [k \in (DOMAIN rem) \ {key} |-> rem[k]]

\* createRef names the ref in the request body, fully qualified; getRef,
\* updateRef and deleteRef name it in the URL, below refs/.
RemoteKey(call) ==
  IF call.kind = "createRef" THEN call.ref ELSE <<"refs/">> \o call.ref

\* A move is a fast-forward when the new SHA descends from the old one; ref
\* SHAs are numbered along one line of history.
FastForward(old, new) == new >= old

\* The remote's handling of one call on refs rem: the answer and the refs
\* afterwards.  fault: the call fails for a reason of the remote's own
\* (transport, rate limit) and changes nothing.
RemoteHandle(call, rem, fault) ==
  LET key == RemoteKey(call)
      known == key \in DOMAIN rem
      reject(e) == [answer |-> Rejected(e), remote |-> rem]
  IN  IF fault THEN reject("RemoteError")
      ELSE IF call.kind = "getRef" THEN
        IF known THEN [answer |-> Resolved(rem[key]), remote |-> rem]
        ELSE reject("RefNotFoundError")
      ELSE IF call.kind = "createRef" THEN
        IF known THEN reject("RefAlreadyExistsError")
        ELSE [answer |-> Resolved(0), remote |-> WithRef(rem, key, call.sha)]
      ELSE IF call.kind = "updateRef" THEN
        IF ~known THEN reject("RefNotFoundError")
        ELSE IF call.force \/ FastForward(rem[key], call.sha)
          THEN [answer |-> Resolved(0), remote |-> WithRef(rem, key, call.sha)]
          ELSE reject("NonFastForwardError")
      ELSE \* deleteRef
        IF known THEN [answer |-> Resolved(0), remote |-> WithoutRef(rem, key)]
        ELSE reject("RefNotFoundError")

InitRemote == remote = NoRefs

\* ------------------------------------------------------------------------
\* fetchRefSha, updateRef, deleteRef, createRef
\* ------------------------------------------------------------------------
OpKinds == {"fetchRefSha", "updateRef", "deleteRef", "createRef"}

\* The one remote call each operation makes, from its arguments.
fetchRefShaCall(o) ==
  [kind |-> "getRef", ref |-> getHeadRef(o.ref), sha |-> 0, force |-> FALSE]
updateRefCall(o) ==
  [kind |-> "updateRef", ref |-> getHeadRef(o.ref), sha |-> o.sha, force |-> o.force]
deleteRefCall(o) ==
  [kind |-> "deleteRef", ref |-> getHeadRef(o.ref), sha |-> 0, force |-> FALSE]
createRefCall(o) ==
  [kind |-> "createRef", ref |-> getFullyQualifiedRef(o.ref), sha |-> o.sha,
   force |-> FALSE]

RemoteCallOf(o) ==
  CASE o.kind = "fetchRefSha" -> fetchRefShaCall(o)
    [] o.kind = "updateRef" -> updateRefCall(o)
    [] o.kind = "deleteRef" -> deleteRefCall(o)
    [] o.kind = "createRef" -> createRefCall(o)

\* Mutant of AfterAnswer: a rejected call is issued once more.
AfterAnswerWithRetry(answer, calls) ==
  IF answer.kind = "rejected" /\ calls < 2 THEN "awaiting" ELSE "return"

\* What an operation does once its awaited remote call has settled: it
\* returns (or rethrows); there is no loop and no catch around the await.
AfterAnswer(answer, calls) == "return"

\* The operation's own promise: a rejection is rethrown as it is, fetchRefSha
\* returns data.object.sha, the others return undefined.
OpResult(kind, answer) ==
  IF answer.kind = "rejected" THEN answer
  ELSE IF kind = "fetchRefSha" THEN Resolved(answer.value)
  ELSE Resolved(0)

InitOp ==
  /\ opPc = "idle"
  /\ op = [kind |-> "fetchRefSha", ref |-> <<"foo">>, sha |-> 1, force |-> FALSE]
  /\ opCalls = 0
  /\ opAnswer = Pending
  /\ opOutcome = Pending

\* A caller invokes one of the four operations; its remote call is issued.
Invoke ==
  /\ opPc = "idle"
  /\ \E k \in OpKinds, r \in BaseRefs, s \in RefShas, f \in BOOLEAN :
       op' = [kind |-> k, ref |-> r, sha |-> s, force |-> f]
  /\ opCalls' = 1
  /\ opAnswer' = Pending
  /\ opOutcome' = Pending
  /\ opPc' = "awaiting"
  /\ UNCHANGED <<linVars, fetchVars, remote, tmpVars>>

\* The remote settles the pending call.
RemoteSettles ==
  /\ opPc = "awaiting"
  /\ \E fault \in BOOLEAN :
       LET r == RemoteHandle(RemoteCallOf(op), remote, fault)
       IN  /\ remote' = r.remote
           /\ opAnswer' = r.answer
  /\ opPc' = "answered"
  /\ UNCHANGED <<linVars, fetchVars, op, opCalls, opOutcome, tmpVars>>

\* The await resumes: the operation returns, or rethrows the rejection.
OpReturns ==
  /\ opPc = "answered"
  /\ IF AfterAnswer(opAnswer, opCalls) = "return"
       THEN /\ opOutcome' = OpResult(op.kind, opAnswer)
            /\ opPc' = "done"
            /\ UNCHANGED opCalls
       ELSE /\ opCalls' = opCalls + 1
            /\ opPc' = "awaiting"
            /\ UNCHANGED opOutcome
  /\ UNCHANGED <<linVars, fetchVars, remote, op, opAnswer, tmpVars>>

\* The caller has its result and may invoke the next operation.
OpReset ==
  /\ opPc = "done"
  /\ opPc' = "idle"
  /\ UNCHANGED <<linVars, fetchVars, remote, op, opCalls, opAnswer, opOutcome, tmpVars>>

\* ------------------------------------------------------------------------
\* createTemporaryRef, withTemporaryRef
\* ------------------------------------------------------------------------
Procs == {1, 2}
TmpBaseRef == <<"foo">>
TmpSha == 1
ActionValue == 1

\* How the caller's action may settle.
ActionOutcomes == { Resolved(ActionValue), Rejected("ActionError") }

\* Mutant of AfterAction: the cleanup runs only when action returns.
AfterActionWithoutFinally(o) == IF o.kind = "rejected" THEN "done" ELSE "delete"

\* try { return await action(temporaryRef) } finally { ... }: the finally
\* block runs however action settles.
AfterAction(o) == "delete"

\* Mutant of FinallyOutcome: a rejection of the cleanup is swallowed.
FinallyOutcomeIgnoresCleanup(o, d) == o

\* The completion of try/finally: a throw from the finally block (the awaited
\* deleteTemporaryRef rejecting with d) replaces the completion o of the try
\* block, be it a return or a throw; otherwise o stands.
FinallyOutcome(o, d) == IF d.kind = "rejected" THEN d ELSE o

\* Mutant of AfterCreate: a rejected createRef is not noticed.
AfterCreateIgnoresFailure(answer) == "action"

\* const {...} = await createTemporaryRef(...) stands before the try block:
\* a rejection of createRef leaves withTemporaryRef at once; otherwise the
\* try block calls action.
AfterCreate(answer) == IF answer.kind = "rejected" THEN "done" ELSE "action"

\* Mutant of DeleteCallOf: the base name is deleted, not the generated one.
DeleteCallOfBaseRef(p) == deleteRefCall([ref |-> TmpBaseRef])

\* An entry of the history of calls.
Event(what, ref) == [what |-> what, ref |-> ref]

CreateCallOf(p) ==
  createRefCall([ref |-> temporaryRef[p], sha |-> TmpSha])

\* deleteTemporaryRef deletes the name createTemporaryRef generated.
DeleteCallOf(p) == deleteRefCall([ref |-> temporaryRef[p]])

InitTmp ==
  /\ tpc = [p \in Procs |-> "idle"]
  /\ suffix = [p \in Procs |-> "none"]
  /\ temporaryRef = [p \in Procs |-> <<>>]
  /\ actionArg = [p \in Procs |-> <<>>]
  /\ actionOutcome = [p \in Procs |-> Pending]
  /\ createAnswer = [p \in Procs |-> Pending]
  /\ deleteAnswer = [p \in Procs |-> Pending]
  /\ createCalls = [p \in Procs |-> 0]
  /\ deleteCalls = [p \in Procs |-> 0]
  /\ deleteTargets = [p \in Procs |-> {}]
  /\ outcome = [p \in Procs |-> Pending]
  /\ events = [p \in Procs |-> <<>>]

\* withTemporaryRef is invoked: createTemporaryRef generates the name and
\* issues createRef.
TmpStart(p) ==
  /\ tpc[p] = "idle"
  /\ \E u \in Uuids :
       /\ suffix' = [suffix EXCEPT ![p] = u]
       /\ temporaryRef' = [temporaryRef EXCEPT ![p] = generateUniqueRef(TmpBaseRef, u)]
       /\ events' = [events EXCEPT ![p] = Append(@,
            Event("create", RemoteKey(createRefCall(
              [ref |-> generateUniqueRef(TmpBaseRef, u), sha |-> TmpSha]))))]
  /\ createCalls' = [createCalls EXCEPT ![p] = @ + 1]
  /\ tpc' = [tpc EXCEPT ![p] = "create"]
  /\ UNCHANGED <<linVars, fetchVars, remote, opVars, actionArg, actionOutcome, createAnswer,
                 deleteAnswer, deleteCalls, deleteTargets, outcome>>

\* The remote settles createRef.  Rejected: the rejection leaves
\* createTemporaryRef and withTemporaryRef, before the try block.  Resolved:
\* action is called with the temporary name.
TmpCreateSettles(p) ==
  /\ tpc[p] = "create"
  /\ \E fault \in BOOLEAN :
       LET r == RemoteHandle(CreateCallOf(p), remote, fault)
       IN  /\ remote' = r.remote
           /\ createAnswer' = [createAnswer EXCEPT ![p] = r.answer]
           /\ IF AfterCreate(r.answer) = "done"
                THEN /\ outcome' = [outcome EXCEPT ![p] = r.answer]
                     /\ tpc' = [tpc EXCEPT ![p] = "done"]
                     /\ UNCHANGED <<actionArg, events>>
                ELSE /\ actionArg' = [actionArg EXCEPT ![p] = temporaryRef[p]]
                     /\ events' = [events EXCEPT ![p] =
                          Append(@, Event("action", temporaryRef[p]))]
                     /\ tpc' = [tpc EXCEPT ![p] = "action"]
                     /\ UNCHANGED outcome
  /\ UNCHANGED <<linVars, fetchVars, opVars, suffix, temporaryRef, actionOutcome, deleteAnswer,
                 createCalls, deleteCalls, deleteTargets>>

\* action settles; the finally block issues deleteRef.
TmpActionSettles(p) ==
  /\ tpc[p] = "action"
  /\ \E o \in ActionOutcomes :
       /\ actionOutcome' = [actionOutcome EXCEPT ![p] = o]
       /\ IF AfterAction(o) = "delete"
            THEN /\ deleteCalls' = [deleteCalls EXCEPT ![p] = @ + 1]
                 /\ deleteTargets' =
                      [deleteTargets EXCEPT ![p] = @ \cup {RemoteKey(DeleteCallOf(p))}]
                 /\ events' = [events EXCEPT ![p] =
                      @ \o << Event("settled", actionArg[p]),
                              Event("delete", RemoteKey(DeleteCallOf(p))) >>]
                 /\ tpc' = [tpc EXCEPT ![p] = "delete"]
                 /\ UNCHANGED outcome
            ELSE /\ outcome' = [outcome EXCEPT ![p] = o]
                 /\ events' = [events EXCEPT ![p] =
                      Append(@, Event("settled", actionArg[p]))]
                 /\ tpc' = [tpc EXCEPT ![p] = "done"]
                 /\ UNCHANGED <<deleteCalls, deleteTargets>>
  /\ UNCHANGED <<linVars, fetchVars, remote, opVars, suffix, temporaryRef, actionArg,
                 createAnswer, deleteAnswer, createCalls>>

\* The remote settles deleteRef; withTemporaryRef settles.
TmpDeleteSettles(p) ==
  /\ tpc[p] = "delete"
  /\ \E fault \in BOOLEAN :
       LET r == RemoteHandle(DeleteCallOf(p), remote, fault)
       IN  /\ remote' = r.remote
           /\ deleteAnswer' = [deleteAnswer EXCEPT ![p] = r.answer]
           /\ outcome' = [outcome EXCEPT ![p] = FinallyOutcome(actionOutcome[p], r.answer)]
  /\ tpc' = [tpc EXCEPT ![p] = "done"]
  /\ UNCHANGED <<linVars, fetchVars, opVars, suffix, temporaryRef, actionArg, actionOutcome,
                 createAnswer, createCalls, deleteCalls, deleteTargets, events>>

\* ------------------------------------------------------------------------
\* fetchCommits of git.js: the paginated listing
\* ------------------------------------------------------------------------
\* The SHAs the pages may hold.
PageShas == {1, 2}

\* What a page may hold: up to MaxPageSize commits.
PageData ==
  UNION { [1 .. n -> { [sha |-> s] : s \in PageShas }] : n \in 0 .. MaxPageSize }

\* The responses the remote may give for page n: any data, and a link to a
\* next page or none; the listing spans at most MaxPages pages.
ResponsesFor(n) ==
  { [page |-> n, data |-> d, next |-> x] :
      d \in PageData, x \in IF n < MaxPages THEN BOOLEAN ELSE {FALSE} }

\* response.data.map(({ sha }) => sha)
getCommitShas(r) == [k \in 1 .. Len(r.data) |-> r.data[k].sha]

\* octokit.hasNextPage(response)
hasNextPage(r) == r.next

\* The page octokit.getNextPage(response) requests.
NextPageOf(r) == r.page + 1

\* Mutant of Accumulate: the page's SHAs replace those fetched so far.
AccumulateReplacing(acc, r) == getCommitShas(r)

\* commits.push(...getCommitShas(response))
Accumulate(acc, r) == acc \o getCommitShas(r)

NoResponse == [page |-> 0, data |-> <<>>, next |-> FALSE]

InitFetch ==
  /\ fpc = "idle"
  /\ response = NoResponse
  /\ fetched = <<>>
  /\ requests = <<>>
  /\ responses = <<>>
  /\ fetchResult = <<>>

\* let response = await octokit.pullRequests.getCommits(...);
\* const commits = getCommitShas(response)
GetCommits ==
  /\ fpc = "idle"
  /\ \E r \in ResponsesFor(1) :
       /\ response' = r
       /\ fetched' = getCommitShas(r)
       /\ responses' = <<r>>
  /\ requests' = <<1>>
  /\ fpc' = "loop"
  /\ UNCHANGED <<linVars, remote, opVars, tmpVars, fetchResult>>

\* The while condition holds: response = await octokit.getNextPage(response);
\* commits.push(...)
GetNextPage ==
  /\ fpc = "loop"
  /\ hasNextPage(response)
  /\ \E r \in ResponsesFor(NextPageOf(response)) :
       /\ response' = r
       /\ fetched' = Accumulate(fetched, r)
       /\ responses' = Append(responses, r)
  /\ requests' = Append(requests, NextPageOf(response))
  /\ UNCHANGED <<linVars, remote, opVars, tmpVars, fpc, fetchResult>>

\* The while condition fails: return commits
FetchReturn ==
  /\ fpc = "loop"
  /\ ~hasNextPage(response)
  /\ fetchResult' = fetched
  /\ fpc' = "done"
  /\ UNCHANGED <<linVars, remote, opVars, tmpVars, response, fetched, requests,
                 responses>>

\* ------------------------------------------------------------------------
\* fetchCommitsDetails
\* ------------------------------------------------------------------------
InitLin ==
  /\ pc = "idle"
  /\ commits = <<>>
  /\ listing = <<>>
  /\ headSha = OutsideSha
  /\ i = 0
  /\ j = 0
  /\ result = <<>>
  /\ error = "none"

\* const commits = await octokit.paginate(options)
Paginate ==
  /\ pc = "idle"
  /\ \E l \in Listings : commits' = l /\ listing' = l
  /\ pc' = "get"
  /\ UNCHANGED <<headSha, i, j, result, error>>
  /\ UNCHANGED <<remote, opVars, tmpVars, fetchVars>>

\* const pr = await octokit.pulls.get(...); the first loop's i = 0
PullsGet ==
  /\ pc = "get"
  /\ \E h \in Shas : headSha' = h
  /\ i' = 0
  /\ pc' = "head"
  /\ UNCHANGED <<commits, listing, j, result, error>>
  /\ UNCHANGED <<remote, opVars, tmpVars, fetchVars>>

\* One iteration of the first loop: move the ith commit to index zero when
\* its sha is the head's.
HeadStep ==
  /\ pc = "head"
  /\ i < Len(commits)
  /\ commits' = HeadBody(commits, headSha, i)
  /\ i' = i + 1
  /\ UNCHANGED <<pc, listing, headSha, j, result, error>>
  /\ UNCHANGED <<remote, opVars, tmpVars, fetchVars>>

\* The first loop ends; the second begins with j = 0 and i = 0.
HeadExit ==
  /\ pc = "head"
  /\ i >= Len(commits)
  /\ pc' = "parent"
  /\ j' = 0
  /\ i' = 0
  /\ UNCHANGED <<commits, listing, headSha, result, error>>
  /\ UNCHANGED <<remote, opVars, tmpVars, fetchVars>>

\* One iteration of the inner loop: commits[j].parents[0].sha throws a
\* TypeError when parents is empty; otherwise the ith commit moves to index
\* j + 1 when its sha is that parent's.
ParentStep ==
  /\ pc = "parent"
  /\ j < Len(commits)
  /\ i < Len(commits)
  /\ IF ParentThrows(commits, j)
       THEN /\ pc' = "failed"
            /\ error' = "TypeError"
            /\ UNCHANGED <<commits, i>>
       ELSE /\ commits' = ParentBody(commits, j, i)
            /\ i' = i + 1
            /\ UNCHANGED <<pc, error>>
  /\ UNCHANGED <<listing, headSha, j, result>>
  /\ UNCHANGED <<remote, opVars, tmpVars, fetchVars>>

\* The inner loop ends: j++ and i = 0.
ParentInnerExit ==
  /\ pc = "parent"
  /\ j < Len(commits)
  /\ i >= Len(commits)
  /\ j' = j + 1
  /\ i' = 0
  /\ UNCHANGED <<pc, commits, listing, headSha, result, error>>
  /\ UNCHANGED <<remote, opVars, tmpVars, fetchVars>>

\* The outer loop ends: commits.reverse(); return commits.map(getCommitsDetails)
ReverseAndReturn ==
  /\ pc = "parent"
  /\ j >= Len(commits)
  /\ commits' = Reverse(commits)
  /\ result' = MapDetails(Reverse(commits))
  /\ pc' = "done"
  /\ UNCHANGED <<listing, headSha, i, j, error>>
  /\ UNCHANGED <<remote, opVars, tmpVars, fetchVars>>

Init == InitLin /\ InitRemote /\ InitOp /\ InitTmp /\ InitFetch

Next ==
  \/ Paginate
  \/ PullsGet
  \/ HeadStep
  \/ HeadExit
  \/ ParentStep
  \/ ParentInnerExit
  \/ ReverseAndReturn

Spec == Init /\ [][Next]_vars

\* The four ref operations, invoked one after another on one remote.
NextRefOps ==
  \/ Invoke
  \/ RemoteSettles
  \/ OpReturns
  \/ OpReset

SpecRefOps == Init /\ [][NextRefOps]_vars

\* Two invocations of withTemporaryRef on the same base name, interleaved at
\* their awaits.
NextTmp ==
  \/ \E p \in Procs : TmpStart(p)
  \/ \E p \in Procs : TmpCreateSettles(p)
  \/ \E p \in Procs : TmpActionSettles(p)
  \/ \E p \in Procs : TmpDeleteSettles(p)

SpecTmp == Init /\ [][NextTmp]_vars

\* fetchCommits of git.js, against a remote that serves the pages.
NextFetch ==
  \/ GetCommits
  \/ GetNextPage
  \/ FetchReturn

SpecFetch == Init /\ [][NextFetch]_vars

\* ------------------------------------------------------------------------
\* Vocabulary of the properties of the linearization
\* ------------------------------------------------------------------------
ShasOf(l) == { l[k].sha : k \in 1 .. Len(l) }

UniqueShas(l) == Cardinality(ShasOf(l)) = Len(l)

HeadPresent(l, h) == h \in ShasOf(l)

\* The record of l with sha s (the first one, when several have it).
RecordOf(l, s) ==
  l[CHOOSE k \in 1 .. Len(l) :
      l[k].sha = s /\ \A m \in 1 .. (k - 1) : l[m].sha # s]

\* The first-parent SHA of the record with sha s; OutsideSha when it has none.
ParentSha(l, s) ==
  IF Len(RecordOf(l, s).parents) = 0 THEN OutsideSha ELSE RecordOf(l, s).parents[1]

\* The SHAs reached from s by following first-parent links inside l, newest
\* first, at most n of them.
RECURSIVE AncestorChain(_, _, _)
AncestorChain(l, s, n) ==
  IF n = 0 \/ s \notin ShasOf(l) THEN <<>>
  ELSE <<s>> \o (IF Len(RecordOf(l, s).parents) = 0
                   THEN <<>>
                   ELSE AncestorChain(l, RecordOf(l, s).parents[1], n - 1))

ChainOf(l, h) == AncestorChain(l, h, Len(l))

ChainShas(l, h) == { ChainOf(l, h)[k] : k \in 1 .. Len(ChainOf(l, h)) }

\* Every commit of l has a first parent.
AllHaveParent(l) == \A k \in 1 .. Len(l) : Len(l[k].parents) >= 1

\* The oldest commit of the head's ancestor chain inside l.
RootOf(l, h) == ChainOf(l, h)[Len(ChainOf(l, h))]

\* l is a connected linear chain whose newest commit is h: unique SHAs, every
\* commit has a parent (the root's lies outside l), and every commit of l is
\* reached from h by first-parent links.
IsLinearChain(l, h) ==
  /\ UniqueShas(l)
  /\ AllHaveParent(l)
  /\ ChainShas(l, h) = ShasOf(l)

\* The arrays with the same records as l, in every order.
PermutationsOf(l) ==
  { [k \in 1 .. Len(l) |-> l[f[k]]] : f \in Permutations(1 .. Len(l)) }

Returned == pc = "done"
Settled == pc \in {"done", "failed"}

\* ------------------------------------------------------------------------
\* Claims about fetchCommitsDetails
\* ------------------------------------------------------------------------

\* C1: on a connected linear chain of N commits with unique SHAs, in any
\* input order, with the head SHA the newest commit's, fetchCommitsDetails
\* returns N commits, oldest first, each one the first parent of the next,
\* the last one the head.
C1_OrderingCorrectness ==
  (Settled /\ IsLinearChain(listing, headSha)) =>
    /\ Returned
    /\ Len(result) = Len(listing)
    /\ result[Len(result)].sha = headSha
    /\ \A k \in 1 .. (Len(result) - 1) :
         ParentSha(listing, result[k + 1].sha) = result[k].sha

\* A chain of three commits listed with the head in the middle has been
\* linearized.
C1_Witness ==
  /\ Returned
  /\ IsLinearChain(listing, headSha)
  /\ Len(listing) >= 3
  /\ listing[1].sha # headSha
  /\ listing[Len(listing)].sha # headSha

\* C4 (as claimed): when the head SHA is the sha of no listed commit, the
\* linearization fails with HeadNotFoundError and returns nothing (stated for
\* listings in which every commit has a parent, so that no other failure
\* comes first).
C4_HeadNotFoundRaised ==
  (Settled /\ AllHaveParent(listing) /\ ~HeadPresent(listing, headSha)) =>
    (pc = "failed" /\ error = "HeadNotFoundError")

\* C5 (as claimed): the commits not reached from the head by first-parent
\* links are absent from the result, whose length is the size of the head's
\* ancestor chain.
C5_LeftoversDropped ==
  (Returned /\ UniqueShas(listing) /\ HeadPresent(listing, headSha)) =>
    /\ Len(result) = Len(ChainOf(listing, headSha))
    /\ \A k \in 1 .. Len(result) : result[k].sha \in ChainShas(listing, headSha)

\* C5 (amended): nothing is dropped: whenever fetchCommitsDetails returns,
\* the result is as long as the listing and holds every listed commit, the
\* ones not reached from the head included.
C5_LeftoversKept ==
  Returned =>
    /\ Len(result) = Len(listing)
    /\ \A k \in 1 .. Len(listing) :
         \E m \in 1 .. Len(result) : result[m].sha = listing[k].sha

\* A listing with unique SHAs, the head present and a commit off the head's
\* ancestor chain has been returned.
C5_Witness ==
  /\ Returned
  /\ UniqueShas(listing)
  /\ HeadPresent(listing, headSha)
  /\ ShasOf(listing) # ChainShas(listing, headSha)

\* C6 (as claimed): every reordering of the listing, with the same head SHA,
\* gives the same returned sequence (stated for listings with unique SHAs
\* that hold the head).
C6_OrderIndependence ==
  (Returned /\ UniqueShas(listing) /\ HeadPresent(listing, headSha)) =>
    \A p \in PermutationsOf(listing) :
      Linearize(p, headSha) = [error |-> "none", value |-> result]

\* C6 (amended): every reordering of a connected linear chain with unique
\* SHAs whose newest commit is the head gives the same returned sequence.
C6_OrderIndependenceOfChains ==
  (Returned /\ IsLinearChain(listing, headSha)) =>
    \A p \in PermutationsOf(listing) :
      Linearize(p, headSha) = [error |-> "none", value |-> result]

\* A chain of three commits, listed neither oldest first nor newest first,
\* has been returned.
C6_Witness ==
  /\ Returned
  /\ IsLinearChain(listing, headSha)
  /\ Len(listing) >= 3
  /\ MapDetails(listing) # result
  /\ MapDetails(Reverse(listing)) # result

\* C7 (as claimed): when the root of the head's chain has an empty parents
\* list, no error is raised and that root is the first commit returned.
C7_RootWithoutParent ==
  ( /\ Settled
    /\ UniqueShas(listing)
    /\ HeadPresent(listing, headSha)
    /\ ChainShas(listing, headSha) = ShasOf(listing)
    /\ Len(RecordOf(listing, RootOf(listing, headSha)).parents) = 0 ) =>
    /\ Returned
    /\ error = "none"
    /\ result[1].sha = RootOf(listing, headSha)

\* C8 (as claimed): for unique SHAs, acyclic parent links and the head
\* present, the first commit returned has a parent SHA that is the sha of no
\* listed commit, also when commits off the head's ancestor chain are listed.
C8_RootDetection ==
  (Returned /\ UniqueShas(listing) /\ HeadPresent(listing, headSha)) =>
    ParentSha(listing, result[1].sha) \notin ShasOf(listing)

\* C8 (amended): for a connected linear chain with unique SHAs whose newest
\* commit is the head (no commit off the head's ancestor chain), the first
\* commit returned has a parent SHA that is the sha of no listed commit.
C8_RootDetectionOfChains ==
  (Returned /\ IsLinearChain(listing, headSha)) =>
    ParentSha(listing, result[1].sha) \notin ShasOf(listing)

\* A chain of at least two commits whose root is not listed first has been
\* returned.
C8_Witness ==
  /\ Returned
  /\ IsLinearChain(listing, headSha)
  /\ Len(listing) >= 2
  /\ ParentSha(listing, listing[1].sha) \in ShasOf(listing)

\* ------------------------------------------------------------------------
\* Claims about withTemporaryRef (checked under SpecTmp)
\* ------------------------------------------------------------------------
TmpDone(p) == tpc[p] = "done"
TmpCreated(p) == createAnswer[p].kind = "resolved"
TmpKey(p) == getFullyQualifiedRef(temporaryRef[p])

\* C2 (as claimed): when action raises E and the deletion of the temporary
\* ref then fails with D, withTemporaryRef rejects with E, not with D.
C2_OriginalFailureWins ==
  \A p \in Procs :
    ( /\ TmpDone(p)
      /\ actionOutcome[p].kind = "rejected"
      /\ deleteAnswer[p].kind = "rejected" ) =>
      outcome[p] = actionOutcome[p]

\* C3: in every run of withTemporaryRef that created its temporary ref, the
\* delete of that ref is invoked exactly once, never twice, whether action
\* returned or raised; it is never invoked more than once at any time.
C3_CleanupExactlyOnce ==
  \A p \in Procs :
    /\ deleteCalls[p] <= 1
    /\ (TmpDone(p) /\ TmpCreated(p)) =>
         /\ actionOutcome[p].kind \in {"resolved", "rejected"}
         /\ deleteCalls[p] = 1
         /\ deleteTargets[p] = {TmpKey(p)}

\* Both invocations created their ref and completed, one with an action that
\* returned, the other with an action that raised.
C3_Witness ==
  /\ \A p \in Procs : TmpDone(p) /\ TmpCreated(p)
  /\ actionOutcome[1].kind = "resolved"
  /\ actionOutcome[2].kind = "rejected"

C10_NoInternalRetry ==
  /\ opCalls <= 1
  /\ opPc = "done" =>
       /\ opCalls = 1
       /\ opAnswer.kind = "rejected" => opOutcome = opAnswer
       /\ opAnswer.kind = "resolved" => opOutcome.kind = "resolved"

\* An updateRef has been rejected by the remote as not a fast-forward and has
\* returned to its caller.
C10_Witness ==
  /\ opPc = "done"
  /\ op.kind = "updateRef"
  /\ opAnswer = Rejected("NonFastForwardError")

\* ------------------------------------------------------------------------
\* Further claims about fetchCommitsDetails (checked under Spec)
\* ------------------------------------------------------------------------

\* C11 (as claimed): the linearization leaves the array received from the
\* listing unchanged, the same elements in the same order.
C11_InputUnchanged ==
  Settled => commits = listing

\* C11 (amended): the linearization reorders the array received from the
\* listing in place: when it returns, that array holds the listed records,
\* themselves unmodified, in the returned order, and the result is a new
\* sequence made from it by getCommitsDetails.
C11_InputReorderedInPlace ==
  Returned =>
    /\ commits \in PermutationsOf(listing)
    /\ result = MapDetails(commits)

\* The linearization has returned and the array it received is no longer in
\* the order of the listing.
C11_Witness ==
  /\ Returned
  /\ Len(listing) >= 2
  /\ commits # listing

\* The positions of the listed records whose sha is h.
HeadMatches(l, h) == { k \in 1 .. Len(l) : l[k].sha = h }

DuplicateHead(l, h) == Cardinality(HeadMatches(l, h)) >= 2

FirstHeadRecord(l, h) ==
  l[CHOOSE k \in HeadMatches(l, h) : \A m \in HeadMatches(l, h) : k <= m]

LastHeadRecord(l, h) ==
  l[CHOOSE k \in HeadMatches(l, h) : \A m \in HeadMatches(l, h) : k >= m]

\* Some listed commit has h as its first parent.
HasChildOf(l, h) ==
  \E k \in 1 .. Len(l) : Len(l[k].parents) >= 1 /\ l[k].parents[1] = h

\* C13 (as claimed): when several listed records have the head SHA, the one
\* placed newest (last in the returned order) is the first of them in input
\* order.
C13_FirstMatchIsHead ==
  (Returned /\ DuplicateHead(listing, headSha)) =>
    commits[Len(commits)] = FirstHeadRecord(listing, headSha)

\* C13 (amended): when several listed records have the head SHA, the one the
\* head-placement loop leaves at index zero, where the parent walk starts, is
\* the last of them in input order; it is last in the returned order whenever
\* no listed commit has the head SHA as its first parent.
C13_LastMatchIsHead ==
  DuplicateHead(listing, headSha) =>
    /\ (pc = "parent" /\ j = 0 /\ i = 0) =>
         commits[1] = LastHeadRecord(listing, headSha)
    /\ (Returned /\ ~HasChildOf(listing, headSha)) =>
         commits[Len(commits)] = LastHeadRecord(listing, headSha)

\* A listing with two different records of the head SHA, and no child of the
\* head, has been returned.
C13_Witness ==
  /\ Returned
  /\ DuplicateHead(listing, headSha)
  /\ FirstHeadRecord(listing, headSha) # LastHeadRecord(listing, headSha)
  /\ ~HasChildOf(listing, headSha)

\* How many times record r occurs in s.
Occurrences(s, r) == Cardinality({ k \in 1 .. Len(s) : s[k] = r })

\* a and b hold the same records, each as many times.
SameRecords(a, b) ==
  /\ Len(a) = Len(b)
  /\ \A k \in 1 .. Len(a) : Occurrences(a, a[k]) = Occurrences(b, a[k])

\* C16: after every step of the head-placement loop and of the
\* parent-placement loop the working array has the length and the records
\* of the listing, each as many times; so whatever the input (leftovers,
\* duplicate SHAs, an absent head), a returned result is the details of a
\* permutation of the listing.
C16_ReorderingPreservesRecords ==
  /\ pc # "idle" => SameRecords(commits, listing)
  /\ Returned =>
       /\ Len(result) = Len(listing)
       /\ SameRecords(result, MapDetails(listing))

\* A listing with duplicate SHAs and without the head has been returned
\* after the parent-placement loop moved a record.
C16_Witness ==
  /\ Returned
  /\ ~UniqueShas(listing)
  /\ ~HeadPresent(listing, headSha)
  /\ commits # Reverse(listing)

\* ------------------------------------------------------------------------
\* Further claims about withTemporaryRef (checked under SpecTmp)
\* ------------------------------------------------------------------------

\* The calls of a complete run on the generated name t, in order.
ScopedProtocol(t) ==
  << Event("create", getFullyQualifiedRef(t)),
     Event("action", t),
     Event("settled", t),
     Event("delete", getFullyQualifiedRef(t)) >>

IsPrefix(a, b) == Len(a) <= Len(b) /\ \A k \in 1 .. Len(a) : a[k] = b[k]

\* C12: in every run whose creation succeeds the calls are create(t), then
\* action(t), then delete(t), for the one generated name t, and the delete
\* is issued only after action has settled; at every moment the calls made
\* so far are a prefix of that order.
C12_ScopedProtocolOrder ==
  \A p \in Procs :
    /\ IsPrefix(events[p], ScopedProtocol(temporaryRef[p]))
    /\ (TmpCreated(p) /\ tpc[p] \in {"delete", "done"}) =>
         events[p] = ScopedProtocol(temporaryRef[p])
    /\ tpc[p] = "action" =>
         events[p] = SubSeq(ScopedProtocol(temporaryRef[p]), 1, 2)

\* Both invocations, under different names, have run create, action and
\* delete to the end.
C12_Witness ==
  /\ \A p \in Procs : TmpDone(p) /\ TmpCreated(p) /\ Len(events[p]) = 4
  /\ temporaryRef[1] # temporaryRef[2]

\* C14: when action returns a value and the deletion of the temporary ref
\* then fails with D, withTemporaryRef rejects with D, the value is not
\* delivered, and the delete is not issued again.
C14_CleanupFailureAfterSuccess ==
  \A p \in Procs :
    ( /\ TmpDone(p)
      /\ actionOutcome[p].kind = "resolved"
      /\ deleteAnswer[p].kind = "rejected" ) =>
      /\ outcome[p] = deleteAnswer[p]
      /\ outcome[p].value # ActionValue
      /\ deleteCalls[p] = 1

\* An invocation whose action returned has completed with its delete
\* rejected by the remote.
C14_Witness ==
  \E p \in Procs :
    /\ TmpDone(p)
    /\ actionOutcome[p] = Resolved(ActionValue)
    /\ deleteAnswer[p].kind = "rejected"

\* C15: when the remote rejects the createRef of the temporary ref,
\* withTemporaryRef rejects with that error, action is never called and no
\* delete is issued.
C15_CreationFailureShortCircuits ==
  \A p \in Procs :
    createAnswer[p].kind = "rejected" =>
      /\ TmpDone(p)
      /\ outcome[p] = createAnswer[p]
      /\ actionArg[p] = <<>>
      /\ actionOutcome[p] = Pending
      /\ deleteCalls[p] = 0
      /\ deleteTargets[p] = {}
      /\ Len(events[p]) = 1

\* The second invocation generated the name the first one holds and its
\* createRef was rejected as already existing.
C15_Witness ==
  /\ createAnswer[2] = Rejected("RefAlreadyExistsError")
  /\ TmpDone(2)
  /\ tpc[1] \in {"action", "delete"}

\* ------------------------------------------------------------------------
\* Claims about fetchCommits of git.js (checked under SpecFetch)
\* ------------------------------------------------------------------------
\* The SHAs of the responses rs, page after page.
RECURSIVE ShasOfPages(_)
ShasOfPages(rs) ==
  IF rs = <<>> THEN <<>>
  ELSE ShasOfPages(SubSeq(rs, 1, Len(rs) - 1)) \o
       [k \in 1 .. Len(rs[Len(rs)].data) |-> rs[Len(rs)].data[k].sha]

\* C17: fetchCommits returns the SHAs of the first page followed by those of
\* every later page, each page requested once and in page order; a next
\* page is requested only while the latest response has one, and the first
\* response without one ends the listing.
C17_PaginatedListing ==
  /\ Len(responses) = Len(requests)
  /\ \A k \in 1 .. Len(requests) : requests[k] = k /\ responses[k].page = k
  /\ \A k \in 1 .. (Len(responses) - 1) : responses[k].next
  /\ fpc # "idle" => response = responses[Len(responses)]
  /\ fetched = ShasOfPages(responses)
  /\ fpc = "done" =>
       /\ ~responses[Len(responses)].next
       /\ fetchResult = ShasOfPages(responses)

\* A listing of three pages, none of them empty, has been returned.
C17_Witness ==
  /\ fpc = "done"
  /\ Len(responses) >= 3
  /\ \A k \in 1 .. Len(responses) : Len(responses[k].data) >= 1

====
